---- MODULE Spec2Model ----
(***************************************************************************)
(* Model of the Parquet column-chunk writer of                             *)
(* cpp/src/parquet/column_writer.cc: ColumnWriter / TypedColumnWriter,     *)
(* its page sink (PageWriter) and its metadata builder.                    *)
(*                                                                         *)
(* One writer is constructed in Init from a column descriptor and a set of *)
(* writer properties; the actions are the public calls WriteBatch,         *)
(* WriteBatchSpaced and Close.  A call is one atomic step that runs every  *)
(* mini-batch, page cut, fallback and flush the call performs.  A C++      *)
(* exception leaves the fields as they were when it was thrown.            *)
(***************************************************************************)
EXTENDS Integers, Sequences, FiniteSets, TLC

VARIABLES
  descr,       \* ColumnDescriptor: max levels, optionality
  properties,  \* WriterProperties of the column
  build,       \* build configuration: "debug" compiles the DCHECKs in,
               \* "release" leaves them out, "any" until a DCHECK that fails
               \* tells the two apart
  writer,      \* the ColumnWriter object (fields named as in the source)
  pager,       \* the calls the PageWriter (page sink) has received, in order
  metadata,    \* the ColumnChunkMetaDataBuilder
  last,        \* the last public call and how it ended
  hist,        \* history: what the caller has submitted so far
  serde,       \* the page serialization test (TestPageSerde): its pages,
               \* output stream and page reader
  level_encoder  \* a LevelEncoder driven through its public interface

vars ==
  <<descr, properties, build, writer, pager, metadata, last, hist, serde,
    level_encoder>>

----------------------------------------------------------------------------
\* Bounds of the model

\* total number of level entries the caller submits over all calls
MaxLevels == 2
\* number of WriteBatch / WriteBatchSpaced calls made on one writer
MaxWrites == 2
\* expected_rows of the writers: one row fewer than the caller can submit, so
\* that a chunk can be closed short, closed full and overfilled
ExpectedRows == {MaxLevels - 1}

\* the physical values a caller writes: two, so that a batch can repeat a
\* value and can bring a second dictionary entry
Values == {1, 2}
\* content of a null slot of a spaced values array
NullSlot == 0

\* bytes of one plain-encoded value of the modelled fixed-width type
ValueSize == 4
\* bytes of the length prefix of a level chunk (sizeof(int32_t))
LengthPrefix == 4
\* bytes of a serialized page header, added by the sink to each page
HeaderSize == 1

\* data_pagesize: 0 cuts a page after every mini-batch, 2 after every
\* mini-batch that leaves a value in the encoder, 6 after two plain values
\* and never for dictionary indices
DataPageSizes == {0, 2, 6}
\* dictionary_pagesize_limit: 0 falls back at once, 8 at the second distinct
\* value
DictionaryPageSizeLimits == {0, 8}
WriteBatchSizes == {1, 2}

----------------------------------------------------------------------------
\* Sequence helpers

\* &array[offset]: the array seen from the (0-based) offset on
From(seq, offset) == SubSeq(seq, offset + 1, Len(seq))

\* the first n elements of an array
Take(seq, n) == SubSeq(seq, 1, IF n < Len(seq) THEN n ELSE Len(seq))

RECURSIVE CountEq(_, _)
\* number of entries of seq equal to v
CountEq(seq, v) ==
  IF seq = <<>> THEN 0
  ELSE (IF Head(seq) = v THEN 1 ELSE 0) + CountEq(Tail(seq), v)

RECURSIVE CountGe(_, _)
\* number of entries of seq greater than or equal to v
CountGe(seq, v) ==
  IF seq = <<>> THEN 0
  ELSE (IF Head(seq) >= v THEN 1 ELSE 0) + CountGe(Tail(seq), v)

\* position of v in seq, 0 when absent
IndexOf(seq, v) ==
  IF \E i \in 1..Len(seq) : seq[i] = v
  THEN CHOOSE i \in 1..Len(seq) : seq[i] = v /\ \A j \in 1..(i - 1) : seq[j] # v
  ELSE 0

----------------------------------------------------------------------------
\* The execution state threaded through one call: the writer, the sink, the
\* metadata builder and the exception (if any) in flight.

Ok(s) == s.exc = "none"

Throw(s, what) == [s EXCEPT !.exc = what]

----------------------------------------------------------------------------
\* Value encoders (PlainEncoder<T>, DictEncoder<T>).  An encoder holds the
\* values put since the last flush; the dictionary encoder holds them as
\* 0-based indices into its insertion-ordered dictionary.

NewPlainEncoder == [kind |-> "Plain", dict |-> <<>>, buffered |-> <<>>]

NewDictEncoder == [kind |-> "Dict", dict |-> <<>>, buffered |-> <<>>]

\* DictEncoder::Put of one value: look the value up, insert it when new
DictPutOne(enc, v) ==
  IF IndexOf(enc.dict, v) # 0
  THEN [enc EXCEPT !.buffered = Append(@, IndexOf(enc.dict, v) - 1)]
  ELSE [enc EXCEPT !.dict = Append(@, v), !.buffered = Append(@, Len(enc.dict))]

RECURSIVE EncoderPut(_, _, _)
\* Encoder::Put(values, num_values): append the first num_values values
EncoderPut(enc, values, num_values) ==
  IF num_values <= 0 \/ values = <<>> THEN enc
  ELSE EncoderPut(IF enc.kind = "Dict" THEN DictPutOne(enc, Head(values))
                  ELSE [enc EXCEPT !.buffered = Append(@, Head(values))],
                  Tail(values), num_values - 1)

RECURSIVE EncoderPutSpaced(_, _, _, _, _)
\* Encoder::PutSpaced(values, num_values, valid_bits, valid_bits_offset):
\* append the slots whose valid bit is set; valid_bits is indexed from bit 0
EncoderPutSpaced(enc, values, num_values, valid_bits, valid_bits_offset) ==
  IF num_values <= 0 \/ values = <<>> THEN enc
  ELSE LET valid == /\ valid_bits_offset + 1 <= Len(valid_bits)
                    /\ valid_bits[valid_bits_offset + 1]
           e1 == IF valid THEN EncoderPut(enc, <<Head(values)>>, 1) ELSE enc
       IN EncoderPutSpaced(e1, Tail(values), num_values - 1, valid_bits,
                           valid_bits_offset + 1)

\* Encoder::EstimatedDataEncodedSize(): the plain encoder reports the bytes it
\* holds; the dictionary encoder reports the bit-width byte plus one byte per
\* buffered index
EstimatedDataEncodedSize(enc) ==
  IF enc.kind = "Dict" THEN 1 + Len(enc.buffered)
  ELSE ValueSize * Len(enc.buffered)

\* DictEncoder::dict_encoded_size(): the plain-encoded dictionary
DictEncodedSize(enc) == ValueSize * Len(enc.dict)

\* DictEncoder::num_entries()
NumEntries(enc) == Len(enc.dict)

\* Encoder::FlushValues(): the value payload of the page being cut, described
\* by the encoder that produced it, the number of values and the bytes
FlushedValues(enc) ==
  [part |-> enc.kind, count |-> Len(enc.buffered),
   size |-> EstimatedDataEncodedSize(enc)]

\* the encoder after FlushValues(): the dictionary stays, the values are gone
AfterFlush(enc) == [enc EXCEPT !.buffered = <<>>]

----------------------------------------------------------------------------
\* Statistics (TypedRowGroupStatistics): the counters of a window of values

NoStats == [enabled |-> FALSE, num_values |-> 0, null_count |-> 0]

NewStats == [enabled |-> TRUE, num_values |-> 0, null_count |-> 0]

\* TypedStats::Update / UpdateSpaced: count the non-null and the null entries
StatsUpdate(stats, num_not_null, num_null) ==
  [stats EXCEPT !.num_values = @ + num_not_null, !.null_count = @ + num_null]

\* TypedStats::Merge
StatsMerge(stats, other) ==
  [stats EXCEPT !.num_values = @ + other.num_values,
                !.null_count = @ + other.null_count]

\* TypedStats::Encode: the snapshot carried by a page or by the chunk
StatsEncode(stats) ==
  [is_set |-> TRUE, num_values |-> stats.num_values, null_count |-> stats.null_count]

\* a default-constructed EncodedStatistics
EmptyEncodedStatistics == [is_set |-> FALSE, num_values |-> 0, null_count |-> 0]

----------------------------------------------------------------------------
\* The page sink (PageWriter)

HasCompressor == properties.compression # "UNCOMPRESSED"

\* PageWriter::Compress: the codec's output for a page buffer
Compress(buffer) ==
  [compressed |-> TRUE, parts |-> buffer.parts, size |-> (buffer.size + 1) \div 2]

\* PageWriter::WriteDataPage: the sink records the page and the byte count it
\* returns, header + body
PagerWriteDataPage(s, page) ==
  [s EXCEPT !.pager = Append(@, [call |-> "WriteDataPage", page |-> page,
                                 bytes |-> page.buffer.size + HeaderSize]),
            !.bytes = page.buffer.size + HeaderSize]

\* PageWriter::WriteDictionaryPage
PagerWriteDictionaryPage(s, page) ==
  [s EXCEPT !.pager = Append(@, [call |-> "WriteDictionaryPage", page |-> page,
                                 bytes |-> page.buffer.size + HeaderSize]),
            !.bytes = page.buffer.size + HeaderSize]

\* PageWriter::Close(has_dictionary, fallback)
PagerClose(s, has_dictionary, fallback) ==
  [s EXCEPT !.pager = Append(@, [call |-> "Close",
                                 page |-> [has_dictionary |-> has_dictionary,
                                           fallback |-> fallback],
                                 bytes |-> 0])]

----------------------------------------------------------------------------
\* ColumnWriter.  Every operator maps the execution state before a piece of
\* code to the state after it, and passes a state with an exception in flight
\* through unchanged.

\* ColumnWriter::InitSinks
InitSinks(s) ==
  [s EXCEPT !.w.definition_levels_sink = <<>>, !.w.repetition_levels_sink = <<>>]

\* DCHECK(!closed_): a debug build aborts the process when the check fails,
\* a release build does not evaluate it
DCheckNotClosed(s) ==
  IF ~Ok(s) \/ ~s.w.closed THEN s
  ELSE IF s.dchecks THEN [s EXCEPT !.exc = "abort", !.build = "debug"]
  ELSE [s EXCEPT !.build = "release"]

\* definition_levels_sink_->Write
DefinitionLevelsSinkWrite(s, num_levels, levels) ==
  IF ~Ok(s) THEN s
  ELSE [s EXCEPT !.w.definition_levels_sink = @ \o Take(levels, num_levels)]

\* repetition_levels_sink_->Write
RepetitionLevelsSinkWrite(s, num_levels, levels) ==
  IF ~Ok(s) THEN s
  ELSE [s EXCEPT !.w.repetition_levels_sink = @ \o Take(levels, num_levels)]

\* ColumnWriter::WriteDefinitionLevels
WriteDefinitionLevels(s, num_levels, levels) ==
  DefinitionLevelsSinkWrite(DCheckNotClosed(s), num_levels, levels)

\* ColumnWriter::WriteRepetitionLevels
WriteRepetitionLevels(s, num_levels, levels) ==
  RepetitionLevelsSinkWrite(DCheckNotClosed(s), num_levels, levels)

\* BitUtil::Log2(max_level + 1): the bit width of a level
BitWidth(max_level) ==
  IF max_level + 1 <= 1 THEN 0
  ELSE IF max_level + 1 <= 2 THEN 1
  ELSE IF max_level + 1 <= 4 THEN 2
  ELSE IF max_level + 1 <= 8 THEN 3 ELSE 4

RECURSIVE Runs(_)
\* number of maximal runs of equal levels
Runs(levels) ==
  IF Len(levels) <= 1 THEN Len(levels)
  ELSE (IF levels[1] = levels[2] THEN 0 ELSE 1) + Runs(Tail(levels))

\* length of the RLE stream: a header byte and the value bytes per run
RleLength(levels, bit_width) == Runs(levels) * (1 + ((bit_width + 7) \div 8))

\* a level chunk: the number of levels encoded and the bytes they take behind
\* the length prefix
LevelChunk(levels, max_level) ==
  [count |-> Len(levels),
   size |-> RleLength(levels, BitWidth(max_level)) + LengthPrefix]

\* ColumnWriter::RleEncodeLevels: encodes num_buffered_values_ levels of the
\* sink behind a length prefix
RleEncodeLevels(s, src_buffer, max_level) ==
  LevelChunk(Take(src_buffer, s.w.num_buffered_values), max_level)

\* an absent level chunk: nothing is encoded, no byte is copied
NoLevels == [count |-> 0, size |-> 0]

\* the definition-level chunk of the page being cut
DefinitionLevelsRle(s) ==
  IF descr.max_definition_level > 0
  THEN RleEncodeLevels(s, s.w.definition_levels_sink, descr.max_definition_level)
  ELSE NoLevels

\* the repetition-level chunk of the page being cut
RepetitionLevelsRle(s) ==
  IF descr.max_repetition_level > 0
  THEN RleEncodeLevels(s, s.w.repetition_levels_sink, descr.max_repetition_level)
  ELSE NoLevels

\* the bytes memcpy appends to the page buffer for one chunk
Chunk(part, chunk) ==
  IF chunk.size = 0 THEN <<>>
  ELSE <<[part |-> part, count |-> chunk.count, size |-> chunk.size]>>

\* a concatenation that copies the definition levels before the repetition
\* levels
DefinitionLevelsFirst(def, rep, values) ==
  [compressed |-> FALSE,
   parts |-> Chunk("def", def) \o Chunk("rep", rep) \o Chunk(values.part, values),
   size |-> def.size + rep.size + values.size]

\* the concatenation into uncompressed_data_: repetition levels, definition
\* levels, values
UncompressedData(def, rep, values) ==
  [compressed |-> FALSE,
   parts |-> Chunk("rep", rep) \o Chunk("def", def) \o Chunk(values.part, values),
   size |-> def.size + rep.size + values.size]

\* the buffer of the page: compressed when the sink has a compressor
CompressedData(uncompressed_data) ==
  IF HasCompressor THEN Compress(uncompressed_data) ELSE uncompressed_data

\* TypedColumnWriter::GetPageStatistics
GetPageStatistics(s) ==
  IF s.w.page_statistics.enabled THEN StatsEncode(s.w.page_statistics)
  ELSE EmptyEncodedStatistics

\* TypedColumnWriter::GetChunkStatistics
GetChunkStatistics(s) ==
  IF s.w.chunk_statistics.enabled THEN StatsEncode(s.w.chunk_statistics)
  ELSE EmptyEncodedStatistics

\* ResetPageStatistics that merges the page into the chunk but keeps the page
\* accumulator
MergeWithoutReset(s) ==
  IF s.w.chunk_statistics.enabled
  THEN [s EXCEPT !.w.chunk_statistics = StatsMerge(@, s.w.page_statistics)]
  ELSE s

\* TypedColumnWriter::ResetPageStatistics
ResetPageStatistics(s) ==
  IF s.w.chunk_statistics.enabled
  THEN [s EXCEPT !.w.chunk_statistics = StatsMerge(@, s.w.page_statistics),
                 !.w.page_statistics = NewStats]
  ELSE s

\* total_bytes_written_ set to, not raised by, the byte count the sink returned
SetBytesWritten(s) == [s EXCEPT !.w.total_bytes_written = s.bytes]

\* total_bytes_written_ += the byte count the sink returned
AddBytesWritten(s) == [s EXCEPT !.w.total_bytes_written = @ + s.bytes]

\* a buffer as AllocateBuffer(allocator_, 0) gives it
EmptyBuffer == [compressed |-> FALSE, parts |-> <<>>, size |-> 0]

\* the bytes behind the buffer pointer of a page: the page's own copy, or what
\* the writer's reusable buffer holds now
PageBytes(s, page) ==
  IF page.data = "uncompressed_data_" THEN s.w.uncompressed_data
  ELSE IF page.data = "compressed_data_" THEN s.w.compressed_data
  ELSE page.buffer

\* ColumnWriter::WriteDataPage: the sink reads the bytes the page points to
WriteDataPage(s, page) ==
  AddBytesWritten(PagerWriteDataPage(s, [page EXCEPT !.buffer = PageBytes(s, page)]))

\* the CompressedDataPage AddDataPage forms: its buffer is the reusable buffer
\* the page was assembled in (data names it).  The page also carries its
\* history: the bytes at the cut, the ordinal of the cut, the non-null values
\* counted since the previous cut and fallback_ at the cut.
CompressedDataPage(s, uncompressed_data, page_stats) ==
  [buffer |-> CompressedData(uncompressed_data),
   data |-> IF HasCompressor THEN "compressed_data_" ELSE "uncompressed_data_",
   bytes_at_cut |-> CompressedData(uncompressed_data),
   num_values |-> s.w.num_buffered_values,
   encoding |-> s.w.encoding,
   definition_level_encoding |-> "RLE",
   repetition_level_encoding |-> "RLE",
   uncompressed_size |-> uncompressed_data.size,
   statistics |-> page_stats,
   encoded_values |-> s.w.num_buffered_encoded_values,
   fallback |-> s.w.fallback,
   cut |-> s.cuts + 1]

\* the page cut from the buffered levels and values
CutPage(s) ==
  CompressedDataPage(s,
                     UncompressedData(DefinitionLevelsRle(s), RepetitionLevelsRle(s),
                                      FlushedValues(s.w.current_encoder)),
                     GetPageStatistics(s))

\* GetValuesBuffer: the encoder gives its values away
GetValuesBuffer(s) ==
  [s EXCEPT !.w.current_encoder = AfterFlush(@), !.cuts = @ + 1]

\* the page buffers of AddDataPage: the chunks concatenated into
\* uncompressed_data_, and compressed into compressed_data_ when the sink has a
\* compressor
FillPageBuffers(s, uncompressed_data) ==
  [s EXCEPT !.w.uncompressed_data = uncompressed_data,
            !.w.compressed_data =
              IF HasCompressor THEN Compress(uncompressed_data) ELSE @]

\* a deferred page that keeps pointing to the reusable buffer
SharePageBuffer(s, page) == page

\* the deep copy of the page bytes a deferred page is built over
CopyPage(s, page) == [page EXCEPT !.buffer = PageBytes(s, page), !.data = "copy"]

\* AddDataPage that writes every page eagerly, whatever the encoding
WritePageAtOnce(s, page) == WriteDataPage(s, page)

\* the branch of AddDataPage: save the page while the dictionary is in use,
\* write it eagerly otherwise
SaveOrWritePage(s, page) ==
  IF s.w.has_dictionary /\ ~s.w.fallback
  THEN [s EXCEPT !.w.data_pages = Append(@, CopyPage(s, page))]
  ELSE WriteDataPage(s, page)

\* an end of AddDataPage that zeroes the counters and keeps the level sinks
KeepSinksForNextPage(s) ==
  [s EXCEPT !.w.num_buffered_values = 0, !.w.num_buffered_encoded_values = 0]

\* the end of AddDataPage: sinks and counters start the next page
StartNextPage(s) ==
  [InitSinks(s) EXCEPT !.w.num_buffered_values = 0,
                       !.w.num_buffered_encoded_values = 0]

\* ColumnWriter::AddDataPage
AddDataPage(s) ==
  IF ~Ok(s) THEN s
  ELSE StartNextPage(
         SaveOrWritePage(
           ResetPageStatistics(
             FillPageBuffers(GetValuesBuffer(s),
                             UncompressedData(DefinitionLevelsRle(s),
                                              RepetitionLevelsRle(s),
                                              FlushedValues(s.w.current_encoder)))),
           CutPage(s)))

RECURSIVE WriteDataPages(_, _)
\* the loop of FlushBufferedDataPages over data_pages_
WriteDataPages(s, pages) ==
  IF pages = <<>> THEN s
  ELSE WriteDataPages(WriteDataPage(s, Head(pages)), Tail(pages))

\* the residual page of FlushBufferedDataPages
AddResidualPage(s) ==
  IF s.w.num_buffered_values > 0 THEN AddDataPage(s) ELSE s

\* data_pages_ written in order, then cleared
DrainDataPages(s) ==
  [WriteDataPages(s, s.w.data_pages) EXCEPT !.w.data_pages = <<>>]

\* FlushBufferedDataPages that drains data_pages_ before it cuts the residual
\* page
DrainBeforeResidual(s) ==
  IF ~Ok(s) THEN s ELSE AddResidualPage(DrainDataPages(s))

\* ColumnWriter::FlushBufferedDataPages
FlushBufferedDataPages(s) ==
  IF ~Ok(s) THEN s ELSE DrainDataPages(AddResidualPage(s))

\* the DictionaryPage WriteDictionaryPage forms
DictionaryPage(dict_encoder) ==
  [buffer |-> [compressed |-> FALSE,
               parts |-> Chunk("Plain", [count |-> NumEntries(dict_encoder),
                                         size |-> DictEncodedSize(dict_encoder)]),
               size |-> DictEncodedSize(dict_encoder)],
   num_values |-> NumEntries(dict_encoder),
   encoding |-> properties.dictionary_index_encoding]

\* TypedColumnWriter::WriteDictionaryPage
WriteDictionaryPage(s) ==
  IF ~Ok(s) THEN s
  ELSE AddBytesWritten(
         PagerWriteDictionaryPage(s, DictionaryPage(s.w.current_encoder)))

\* a fallback that sets the flag and the tag and keeps the dictionary encoder
FallBackKeepingEncoder(s) ==
  [s EXCEPT !.w.fallback = TRUE, !.w.encoding = "PLAIN"]

\* a fallback that replaces the encoder and keeps the dictionary tag
FallBackKeepingTag(s) ==
  [s EXCEPT !.w.fallback = TRUE, !.w.current_encoder = NewPlainEncoder]

\* the end of CheckDictionarySizeLimit: fall back to PLAIN
FallBackToPlain(s) ==
  [s EXCEPT !.w.fallback = TRUE,
            !.w.current_encoder = NewPlainEncoder,
            !.w.encoding = "PLAIN"]

\* a limit test that lets a dictionary of exactly the limit pass
DictionaryOverLimit(dict_encoder) ==
  DictEncodedSize(dict_encoder) > properties.dictionary_pagesize_limit

\* the test of CheckDictionarySizeLimit
DictionaryIsFull(dict_encoder) ==
  DictEncodedSize(dict_encoder) >= properties.dictionary_pagesize_limit

\* CheckDictionarySizeLimit that flushes the buffered pages before it writes
\* the dictionary page
FlushBeforeDictionaryPage(s) ==
  IF ~Ok(s) THEN s
  ELSE IF DictionaryIsFull(s.w.current_encoder)
  THEN FallBackToPlain(WriteDictionaryPage(FlushBufferedDataPages(s)))
  ELSE s

\* TypedColumnWriter::CheckDictionarySizeLimit
CheckDictionarySizeLimit(s) ==
  IF ~Ok(s) THEN s
  ELSE IF DictionaryIsFull(s.w.current_encoder)
  THEN FallBackToPlain(FlushBufferedDataPages(WriteDictionaryPage(s)))
  ELSE s

\* Close that writes the dictionary page without looking at fallback_
WriteDictionaryPageAtClose(s) ==
  IF s.w.has_dictionary THEN WriteDictionaryPage(s) ELSE s

\* Close: the dictionary page of a writer that never fell back
WritePendingDictionaryPage(s) ==
  IF s.w.has_dictionary /\ ~s.w.fallback THEN WriteDictionaryPage(s) ELSE s

\* Close: metadata_->SetStatistics when the chunk statistics are set; the
\* builder records the call and how many calls the sink had received by then
SetChunkStatistics(s, chunk_statistics) ==
  IF chunk_statistics.is_set
  THEN [s EXCEPT !.metadata = Append(@, [statistics |-> chunk_statistics,
                                         pager_calls |-> Len(s.pager)])]
  ELSE s

\* Close: pager_->Close(has_dictionary_, fallback_)
ClosePager(s) == PagerClose(s, s.w.has_dictionary, s.w.fallback)

\* Close that closes the sink before it attaches the chunk statistics
CloseSinkBeforeStatistics(s) ==
  SetChunkStatistics(ClosePager(s), GetChunkStatistics(ClosePager(s)))

\* Close: the statistics and the sink's close that follow the flush
FinishChunk(s) == ClosePager(SetChunkStatistics(s, GetChunkStatistics(s)))

\* the body of "if (!closed_)" of Close
Finalize(s) ==
  FinishChunk(FlushBufferedDataPages(
                WritePendingDictionaryPage([s EXCEPT !.w.closed = TRUE])))

\* a row check at Close that looks for missing rows only
RowsMissing(num_rows, expected_rows) == num_rows < expected_rows

\* the row check of ColumnWriter::Close
RowsMismatch(num_rows, expected_rows) == num_rows # expected_rows

\* the end of Close: throw on a row mismatch, else return total_bytes_written_
CheckRowsAndReturn(s) ==
  IF RowsMismatch(s.w.num_rows, s.w.expected_rows)
  THEN Throw(s, "ParquetException")
  ELSE [s EXCEPT !.ret = s.w.total_bytes_written]

\* Close that checks the rows before it finalizes the chunk
CheckRowsBeforeFinalize(s) ==
  IF RowsMismatch(s.w.num_rows, s.w.expected_rows)
  THEN Throw(s, "ParquetException")
  ELSE CheckRowsAndReturn(IF ~s.w.closed THEN Finalize(s) ELSE s)

\* ColumnWriter::Close
CloseWriter(s) ==
  CheckRowsAndReturn(IF ~s.w.closed THEN Finalize(s) ELSE s)

----------------------------------------------------------------------------
\* TypedColumnWriter: the write path

\* a row check that already fails when the expected rows are reached
RowsReached(num_rows, expected_rows) == num_rows >= expected_rows

\* the row check of WriteMiniBatch / WriteMiniBatchSpaced
RowsExceeded(num_rows, expected_rows) == num_rows > expected_rows

\* rows counted as if every level entry started a row
RowsOfEveryLevel(num_values, rep_levels) == num_values

\* rows a mini-batch adds: the repetition levels equal to 0 of a repeated
\* column, every level entry of a non-repeated one
RowsOf(num_values, rep_levels) ==
  IF descr.max_repetition_level > 0
  THEN CountEq(Take(rep_levels, num_values), 0)
  ELSE num_values

\* values a mini-batch encodes: the definition levels equal to the maximum
ValuesToWrite(num_values, def_levels) ==
  IF descr.max_definition_level > 0
  THEN CountEq(Take(def_levels, num_values), descr.max_definition_level)
  ELSE num_values

\* slots a spaced mini-batch reads: the definition levels at or above the
\* lowest level that owns a slot
SpacedValuesToWrite(num_values, def_levels) ==
  IF descr.max_definition_level > 0
  THEN CountGe(Take(def_levels, num_values),
               IF descr.is_optional THEN descr.max_definition_level - 1
               ELSE descr.max_definition_level)
  ELSE num_values

\* mini-batch: the definition levels go to their sink
BufferDefinitionLevels(s, num_values, def_levels) ==
  IF descr.max_definition_level > 0
  THEN WriteDefinitionLevels(s, num_values, def_levels) ELSE s

\* num_rows_ counted up
AddRows(s, rows) == IF ~Ok(s) THEN s ELSE [s EXCEPT !.w.num_rows = @ + rows]

\* mini-batch: rows are counted, the repetition levels go to their sink
BufferRepetitionLevels(s, num_values, rep_levels) ==
  IF descr.max_repetition_level > 0
  THEN WriteRepetitionLevels(AddRows(s, RowsOf(num_values, rep_levels)),
                             num_values, rep_levels)
  ELSE AddRows(s, num_values)

\* mini-batch: "More rows were written in the column chunk than expected"
CheckRows(s) ==
  IF ~Ok(s) THEN s
  ELSE IF RowsExceeded(s.w.num_rows, s.w.expected_rows)
  THEN Throw(s, "ParquetException")
  ELSE s

\* the part of a mini-batch up to the row check
CountLevels(s, num_values, def_levels, rep_levels) ==
  CheckRows(BufferRepetitionLevels(
              BufferDefinitionLevels(s, num_values, def_levels),
              num_values, rep_levels))

\* TypedColumnWriter::WriteValues
WriteValues(s, num_values, values) ==
  IF ~Ok(s) THEN s
  ELSE [s EXCEPT !.w.current_encoder = EncoderPut(@, values, num_values)]

\* TypedColumnWriter::WriteValuesSpaced
WriteValuesSpaced(s, num_values, valid_bits, valid_bits_offset, values) ==
  IF ~Ok(s) THEN s
  ELSE [s EXCEPT !.w.current_encoder =
           EncoderPutSpaced(@, values, num_values, valid_bits, valid_bits_offset)]

\* mini-batch: page_statistics_->Update / UpdateSpaced
UpdatePageStatistics(s, num_not_null, num_null) ==
  IF s.w.page_statistics.enabled
  THEN [s EXCEPT !.w.page_statistics = StatsUpdate(@, num_not_null, num_null)]
  ELSE s

\* buffered counters that count the encoded values twice and no level entry
CountBufferedValues(s, num_values, values_to_write) ==
  [s EXCEPT !.w.num_buffered_values = @ + values_to_write,
            !.w.num_buffered_encoded_values = @ + values_to_write]

\* mini-batch: the buffered counters
CountBuffered(s, num_values, values_to_write) ==
  [s EXCEPT !.w.num_buffered_values = @ + num_values,
            !.w.num_buffered_encoded_values = @ + values_to_write]

\* a page-cut test that lets an estimate of exactly data_pagesize pass
PageOverFull(s) ==
  EstimatedDataEncodedSize(s.w.current_encoder) > properties.data_pagesize

\* the page-cut test of a mini-batch
PageIsFull(s) ==
  EstimatedDataEncodedSize(s.w.current_encoder) >= properties.data_pagesize

\* mini-batch: cut a page when the encoder's estimate reaches data_pagesize
CutPageIfFull(s) == IF PageIsFull(s) THEN AddDataPage(s) ELSE s

\* mini-batch: the dictionary size check of a writer that has not fallen back
CheckDictionaryIfActive(s) ==
  IF s.w.has_dictionary /\ ~s.w.fallback THEN CheckDictionarySizeLimit(s) ELSE s

\* the part of a mini-batch after the values were put; .ret is the returned
\* values_to_write
FinishMiniBatch(s, num_values, values_to_write) ==
  IF ~Ok(s) THEN s
  ELSE [CheckDictionaryIfActive(
          CutPageIfFull(
            CountBuffered(
              UpdatePageStatistics(s, values_to_write, num_values - values_to_write),
              num_values, values_to_write)))
        EXCEPT !.ret = values_to_write]

\* TypedColumnWriter::WriteMiniBatch
WriteMiniBatch(s, num_values, def_levels, rep_levels, values) ==
  IF ~Ok(s) THEN s
  ELSE FinishMiniBatch(
         WriteValues(CountLevels(s, num_values, def_levels, rep_levels),
                     ValuesToWrite(num_values, def_levels), values),
         num_values, ValuesToWrite(num_values, def_levels))

\* mini-batch: *num_spaced_written = spaced_values_to_write
SetNumSpacedWritten(s, spaced_values_to_write) ==
  IF ~Ok(s) THEN s ELSE [s EXCEPT !.spaced = spaced_values_to_write]

\* the values of a spaced mini-batch: spaced for an optional leaf, dense
\* otherwise
PutSpacedOrDense(s, num_values, def_levels, valid_bits, valid_bits_offset, values) ==
  IF descr.is_optional
  THEN WriteValuesSpaced(s, SpacedValuesToWrite(num_values, def_levels),
                         valid_bits, valid_bits_offset, values)
  ELSE WriteValues(s, ValuesToWrite(num_values, def_levels), values)

\* TypedColumnWriter::WriteMiniBatchSpaced
WriteMiniBatchSpaced(s, num_values, def_levels, rep_levels, valid_bits, valid_bits_offset, values) ==
  IF ~Ok(s) THEN s
  ELSE FinishMiniBatch(
         SetNumSpacedWritten(
           PutSpacedOrDense(CountLevels(s, num_values, def_levels, rep_levels),
                            num_values, def_levels, valid_bits,
                            valid_bits_offset, values),
           SpacedValuesToWrite(num_values, def_levels)),
         num_values, ValuesToWrite(num_values, def_levels))

\* WriteBatch: value_offset += num_values
AdvanceValueOffset(s) == [s EXCEPT !.value_offset = @ + s.ret]

RECURSIVE WriteBatchRounds(_, _, _, _, _, _)
\* the loop of WriteBatch over the full mini-batches, then the remainder
WriteBatchRounds(s, round, num_batches, def_levels, rep_levels, values) ==
  IF ~Ok(s) THEN s
  ELSE IF round < num_batches
  THEN WriteBatchRounds(
         AdvanceValueOffset(
           WriteMiniBatch(s, properties.write_batch_size,
                          From(def_levels, round * properties.write_batch_size),
                          From(rep_levels, round * properties.write_batch_size),
                          From(values, s.value_offset))),
         round + 1, num_batches, def_levels, rep_levels, values)
  ELSE WriteMiniBatch(s, s.remaining,
                      From(def_levels, round * properties.write_batch_size),
                      From(rep_levels, round * properties.write_batch_size),
                      From(values, s.value_offset))

\* TypedColumnWriter::WriteBatch
WriteBatchCall(s, num_values, def_levels, rep_levels, values) ==
  WriteBatchRounds([s EXCEPT !.remaining = num_values % properties.write_batch_size,
                             !.value_offset = 0],
                   0, num_values \div properties.write_batch_size,
                   def_levels, rep_levels, values)

\* WriteBatchSpaced: values_offset += num_spaced_written
AdvanceSpacedOffset(s) == [s EXCEPT !.value_offset = @ + s.spaced]

RECURSIVE WriteBatchSpacedRounds(_, _, _, _, _, _, _, _)
\* the loop of WriteBatchSpaced over the full mini-batches, then the remainder
WriteBatchSpacedRounds(s, round, num_batches, def_levels, rep_levels, valid_bits, valid_bits_offset, values) ==
  IF ~Ok(s) THEN s
  ELSE IF round < num_batches
  THEN WriteBatchSpacedRounds(
         AdvanceSpacedOffset(
           WriteMiniBatchSpaced(s, properties.write_batch_size,
                                From(def_levels, round * properties.write_batch_size),
                                From(rep_levels, round * properties.write_batch_size),
                                valid_bits, valid_bits_offset + s.value_offset,
                                From(values, s.value_offset))),
         round + 1, num_batches, def_levels, rep_levels, valid_bits,
         valid_bits_offset, values)
  ELSE WriteMiniBatchSpaced(s, s.remaining,
                            From(def_levels, round * properties.write_batch_size),
                            From(rep_levels, round * properties.write_batch_size),
                            valid_bits, valid_bits_offset + s.value_offset,
                            From(values, s.value_offset))

\* TypedColumnWriter::WriteBatchSpaced
WriteBatchSpacedCall(s, num_values, def_levels, rep_levels, valid_bits, valid_bits_offset, values) ==
  WriteBatchSpacedRounds(
    [s EXCEPT !.remaining = num_values % properties.write_batch_size,
              !.value_offset = 0],
    0, num_values \div properties.write_batch_size, def_levels, rep_levels,
    valid_bits, valid_bits_offset, values)

----------------------------------------------------------------------------
\* Construction

\* ColumnWriter::Make: the value encoding of the column
MakeEncoding(d, p) ==
  IF p.dictionary_enabled /\ d.physical_type # "BOOLEAN"
  THEN p.dictionary_page_encoding
  ELSE p.encoding

\* TypedColumnWriter constructor over the ColumnWriter constructor
TypedColumnWriter(expected_rows, encoding, p) ==
  [expected_rows |-> expected_rows,
   has_dictionary |-> encoding \in {"PLAIN_DICTIONARY", "RLE_DICTIONARY"},
   encoding |-> encoding,
   num_buffered_values |-> 0,
   num_buffered_encoded_values |-> 0,
   num_rows |-> 0,
   total_bytes_written |-> 0,
   closed |-> FALSE,
   fallback |-> FALSE,
   definition_levels_sink |-> <<>>,
   repetition_levels_sink |-> <<>>,
   data_pages |-> <<>>,
   uncompressed_data |-> EmptyBuffer,
   compressed_data |-> EmptyBuffer,
   current_encoder |-> IF encoding = "PLAIN" THEN NewPlainEncoder ELSE NewDictEncoder,
   page_statistics |-> IF p.statistics_enabled THEN NewStats ELSE NoStats,
   chunk_statistics |-> IF p.statistics_enabled THEN NewStats ELSE NoStats]

\* the column descriptors written: required, optional, repeated with a
\* required leaf
Descriptors ==
  { [physical_type |-> "INT32", max_definition_level |-> 0,
     max_repetition_level |-> 0, is_optional |-> FALSE],
    [physical_type |-> "INT32", max_definition_level |-> 1,
     max_repetition_level |-> 0, is_optional |-> TRUE],
    [physical_type |-> "INT32", max_definition_level |-> 1,
     max_repetition_level |-> 1, is_optional |-> FALSE] }

\* the writer properties a column is written with: every combination of the
\* paging options, once bare (no statistics, no codec) and once with
\* statistics and a codec; the dictionary page encoding is PLAIN_DICTIONARY or
\* RLE_DICTIONARY, the latter with the bare options and mini-batches of one
PropertySets ==
  { p \in [encoding : {"PLAIN"},
           dictionary_enabled : BOOLEAN,
           dictionary_page_encoding : {"PLAIN_DICTIONARY", "RLE_DICTIONARY"},
           dictionary_index_encoding : {"PLAIN_DICTIONARY"},
           dictionary_pagesize_limit : DictionaryPageSizeLimits,
           data_pagesize : DataPageSizes,
           write_batch_size : WriteBatchSizes,
           statistics_enabled : BOOLEAN,
           compression : {"UNCOMPRESSED", "SNAPPY"}] :
      /\ p.statistics_enabled = (p.compression # "UNCOMPRESSED")
      \* without a dictionary the dictionary size limit is never read
      /\ p.dictionary_enabled \/ p.dictionary_pagesize_limit = 8
      \* a data_pagesize of 0 is tried with the smallest mini-batch only
      /\ p.data_pagesize = 0 =>
           (p.write_batch_size = 1 /\ ~p.statistics_enabled)
      /\ p.dictionary_page_encoding = "RLE_DICTIONARY" =>
           (/\ p.dictionary_enabled /\ ~p.statistics_enabled
            /\ p.write_batch_size = 1 /\ p.dictionary_pagesize_limit = 8) }

----------------------------------------------------------------------------
\* Page serialization (TestPageSerde.Compression): pages are written to an
\* in-memory stream as a serialized page header followed by the compressed
\* payload, and read back by a SerializedPageReader.  A stream is a sequence
\* of bytes; the codecs, the header serialization and the reader are not part
\* of column_writer.cc and are modelled by their contracts.

\* largest number of pages of one stream
MaxPages == 2
\* largest number of bytes of one page
MaxPageBytes == 3

Bytes == {0, 1}

\* the codecs the test runs
codec_types == <<"GZIP", "SNAPPY">>

\* faux_data: the uncompressed payloads of the pages
FauxPages == UNION {[1..n -> Bytes] : n \in 0..MaxPageBytes}

FauxData == UNION {[1..n -> FauxPages] : n \in 0..MaxPages}

RECURSIVE LeadingRun(_)
\* length of the run of equal bytes that starts a non-empty buffer
LeadingRun(data) ==
  IF Len(data) >= 2 /\ data[2] = data[1] THEN 1 + LeadingRun(Tail(data)) ELSE 1

RECURSIVE RunLengthPairs(_)
\* a buffer as (run length, byte) pairs
RunLengthPairs(data) ==
  IF data = <<>> THEN <<>>
  ELSE <<LeadingRun(data), data[1]>> \o RunLengthPairs(From(data, LeadingRun(data)))

RECURSIVE ExpandPairs(_)
\* the bytes that (run length, byte) pairs stand for
ExpandPairs(pairs) ==
  IF Len(pairs) < 2 THEN <<>>
  ELSE [i \in 1..pairs[1] |-> pairs[2]] \o ExpandPairs(From(pairs, 2))

\* Codec::Compress.  GZIP stands for a codec that codes runs, SNAPPY for one
\* that stores a block as its length and its literal bytes.
CodecCompress(codec, data) ==
  IF codec = "GZIP" THEN RunLengthPairs(data) ELSE <<Len(data)>> \o data

\* Codec::MaxCompressedLen
CodecMaxCompressedLen(codec, data_size) ==
  IF codec = "GZIP" THEN 2 * data_size ELSE data_size + 1

\* Codec::Decompress into an output buffer of output_len bytes
CodecDecompress(codec, input, output_len) ==
  Take(IF codec = "GZIP" THEN ExpandPairs(input)
       ELSE IF input = <<>> THEN <<>> ELSE Take(From(input, 1), input[1]),
       output_len)

PageHeader(uncompressed_size, compressed_size) ==
  [uncompressed_page_size |-> uncompressed_size,
   compressed_page_size |-> compressed_size]

SerializeThriftMsg(header) ==
  <<header.uncompressed_page_size, header.compressed_page_size>>

DeserializeThriftMsg(bytes) ==
  [uncompressed_page_size |-> bytes[1], compressed_page_size |-> bytes[2]]

\* serialized length of a page header
SerializedHeaderLen == Len(SerializeThriftMsg(PageHeader(0, 0)))

\* TestPageSerde::WriteDataPageHeader
WriteDataPageHeader(out_stream, uncompressed_size, compressed_size) ==
  out_stream \o SerializeThriftMsg(PageHeader(uncompressed_size, compressed_size))

\* the test's buffer after Compress: max_compressed_size bytes, of which the
\* first actual_size are the compressed page
CompressBuffer(compressed, max_compressed_size) ==
  compressed \o [i \in 1..(max_compressed_size - Len(compressed)) |-> 0]

\* out_stream_->Write of the whole buffer
WriteWholeBuffer(out_stream, buffer, actual_size) == out_stream \o buffer

\* out_stream_->Write(buffer.data(), actual_size)
WritePayload(out_stream, buffer, actual_size) == out_stream \o Take(buffer, actual_size)

\* one round of the test's write loop
WritePage(out_stream, codec, data) ==
  WritePayload(WriteDataPageHeader(out_stream, Len(data), Len(CodecCompress(codec, data))),
               CompressBuffer(CodecCompress(codec, data), CodecMaxCompressedLen(codec, Len(data))),
               Len(CodecCompress(codec, data)))

DataPage(buffer, size) == [data |-> buffer, size |-> size]

\* SerializedPageReader::NextPage after the header: read compressed_page_size
\* bytes and decompress them into uncompressed_page_size bytes
ReadPayload(sd, codec, header) ==
  IF Len(sd.in_stream) - sd.pos - SerializedHeaderLen < header.compressed_page_size
  THEN [sd EXCEPT !.threw = TRUE]
  ELSE [sd EXCEPT
          !.pos = @ + SerializedHeaderLen + header.compressed_page_size,
          !.read = Append(@, DataPage(
                     CodecDecompress(codec,
                                SubSeq(sd.in_stream, sd.pos + SerializedHeaderLen + 1,
                                       sd.pos + SerializedHeaderLen
                                         + header.compressed_page_size),
                                header.uncompressed_page_size),
                     header.uncompressed_page_size))]

\* SerializedPageReader::NextPage: no page at the end of the stream
ReadPage(sd, codec) ==
  IF sd.pos >= Len(sd.in_stream) THEN [sd EXCEPT !.eos = TRUE]
  ELSE IF Len(sd.in_stream) - sd.pos < SerializedHeaderLen
  THEN [sd EXCEPT !.threw = TRUE]
  ELSE ReadPayload(sd, codec,
                   DeserializeThriftMsg(SubSeq(sd.in_stream, sd.pos + 1,
                                               sd.pos + SerializedHeaderLen)))

----------------------------------------------------------------------------
\* LevelEncoder.  The encoder keeps an RleEncoder and a BitWriter (null until
\* an Init creates them), the encoding and bit width of the last Init, and
\* rle_length_.  RleEncoder and BitWriter are not part of column_writer.cc:
\* an RleEncoder takes a value while the encoded runs fit its buffer, a
\* BitWriter while the bits fit its max_bytes.  The record also keeps the
\* history of the object: whether an Init has returned, and the last call.

\* number of calls made on one LevelEncoder
MaxEncoderCalls == 3
\* largest number of levels of one Encode call
MaxLevelBatch == 3

LevelEncodings == {"RLE", "BIT_PACKED", "PLAIN"}

MaxLevelChoices == {1, 15}

NumBufferedChoices == {0, 1, MaxLevelBatch}

DataSizes == 0..2

LevelBatches == UNION {[1..n -> {0, 1}] : n \in 0..MaxLevelBatch}

\* BitUtil::Ceil
Ceil(value, divisor) == (value + divisor - 1) \div divisor

NullEncoder == [set |-> FALSE, capacity |-> 0, data_size |-> 0, put |-> <<>>, bits |-> 0]

NoLevelCall ==
  [op |-> "none", status |-> "returned", what |-> "", encoding |-> "none",
   ret |-> 0, batch_size |-> 0, fitting |-> 0, written |-> 0, data_size |-> 0]

\* LevelEncoder::LevelEncoder
NewLevelEncoder ==
  [rle_encoder |-> NullEncoder, bit_packed_encoder |-> NullEncoder,
   encoding |-> "none", bit_width |-> 0, rle_length |-> 0,
   initialized |-> FALSE, calls |-> 0, call |-> NoLevelCall]

\* new RleEncoder(data, data_size, bit_width_)
NewRleEncoder(data_size) ==
  [set |-> TRUE, capacity |-> data_size, data_size |-> data_size, put |-> <<>>,
   bits |-> 0]

\* new BitWriter(data, num_bytes): data_size is the size of the region the
\* caller supplied
NewBitWriter(num_bytes, data_size) ==
  [set |-> TRUE, capacity |-> num_bytes, data_size |-> data_size, put |-> <<>>,
   bits |-> 0]

\* the call recorded as thrown
LevelThrow(e, op, encoding, what) ==
  [e EXCEPT !.calls = @ + 1,
            !.call = [NoLevelCall EXCEPT !.op = op, !.status = "threw",
                                         !.what = what, !.encoding = encoding]]

\* the call recorded as returned
LevelReturn(e, op, encoding, ret) ==
  [e EXCEPT !.calls = @ + 1,
            !.call = [NoLevelCall EXCEPT !.op = op, !.encoding = encoding,
                                         !.ret = ret]]

\* the switch of LevelEncoder::Init, after bit_width_ and encoding_ are set
InitEncoders(e, encoding, num_buffered_values, data_size) ==
  IF encoding = "RLE"
  THEN LevelReturn([e EXCEPT !.rle_encoder = NewRleEncoder(data_size),
                             !.initialized = TRUE],
                   "Init", encoding, 0)
  ELSE IF encoding = "BIT_PACKED"
  THEN LevelReturn([e EXCEPT !.bit_packed_encoder =
                               NewBitWriter(Ceil(num_buffered_values * e.bit_width, 8),
                                            data_size),
                             !.initialized = TRUE],
                   "Init", encoding, 0)
  ELSE LevelThrow(e, "Init", encoding, "Unknown encoding type for levels.")

\* LevelEncoder::Init
LevelEncoderInit(e, encoding, max_level, num_buffered_values, data_size) ==
  InitEncoders([e EXCEPT !.bit_width = BitWidth(max_level), !.encoding = encoding],
               encoding, num_buffered_values, data_size)

\* RleEncoder::MaxBufferSize: every value a run of its own
RleMaxBufferSize(bit_width, num_values) == RleLength([i \in 1..num_values |-> i], bit_width)

\* RleEncoder::MinBufferSize: one run
RleMinBufferSize(bit_width) == RleLength(<<0>>, bit_width)

\* LevelEncoder::MaxBufferSize
LevelEncoderMaxBufferSize(e, encoding, max_level, num_buffered_values) ==
  IF encoding = "RLE"
  THEN LevelReturn(e, "MaxBufferSize", encoding,
                   RleMaxBufferSize(BitWidth(max_level), num_buffered_values)
                     + RleMinBufferSize(BitWidth(max_level)))
  ELSE IF encoding = "BIT_PACKED"
  THEN LevelReturn(e, "MaxBufferSize", encoding,
                   Ceil(num_buffered_values * BitWidth(max_level), 8))
  ELSE LevelThrow(e, "MaxBufferSize", encoding, "Unknown encoding type for levels.")

\* bytes the RleEncoder's stream takes with the first n levels of the batch
RleBytes(rle, bit_width, levels, n) == RleLength(rle.put \o Take(levels, n), bit_width)

\* bytes the BitWriter's stream takes with the first n levels of the batch
BitPackedBytes(bp, bit_width, n) == Ceil(bp.bits + n * bit_width, 8)

\* the RLE loop of Encode: the levels Put takes before it returns false
RlePutCount(rle, bit_width, levels) ==
  Cardinality({ n \in 1..Len(levels) : RleBytes(rle, bit_width, levels, n) <= rle.capacity })

\* the bit-packed loop of Encode: the levels PutValue takes before it returns
\* false
BitPackedPutCount(bp, bit_width, levels) ==
  Cardinality({ n \in 1..Len(levels) : bp.bits + n * bit_width <= 8 * bp.capacity })

\* the RLE branch of Encode with num_encoded levels taken
EncodeRle(e, levels, num_encoded, fitting) ==
  [e EXCEPT !.rle_encoder.put = @ \o Take(levels, num_encoded),
            !.rle_length = RleBytes(e.rle_encoder, e.bit_width, levels, num_encoded),
            !.calls = @ + 1,
            !.call = [NoLevelCall EXCEPT
                        !.op = "Encode", !.encoding = e.encoding,
                        !.ret = num_encoded, !.batch_size = Len(levels),
                        !.fitting = fitting,
                        !.data_size = e.rle_encoder.data_size,
                        !.written = RleBytes(e.rle_encoder, e.bit_width, levels,
                                             num_encoded)]]

\* the bit-packed branch of Encode with num_encoded levels taken; Flush aligns
\* the stream to a byte
EncodeBitPacked(e, levels, num_encoded, fitting, status) ==
  [e EXCEPT !.bit_packed_encoder.bits =
              8 * BitPackedBytes(e.bit_packed_encoder, e.bit_width, num_encoded),
            !.calls = @ + 1,
            !.call = [NoLevelCall EXCEPT
                        !.op = "Encode", !.encoding = e.encoding,
                        !.status = status,
                        !.ret = num_encoded, !.batch_size = Len(levels),
                        !.fitting = fitting,
                        !.data_size = e.bit_packed_encoder.data_size,
                        !.written = BitPackedBytes(e.bit_packed_encoder, e.bit_width,
                                                   num_encoded)]]

\* a call that runs into undefined behaviour and ends the process
LevelCrash(e, levels) ==
  [e EXCEPT !.calls = @ + 1,
            !.call = [NoLevelCall EXCEPT !.op = "Encode", !.status = "crashed",
                                         !.encoding = e.encoding,
                                         !.batch_size = Len(levels)]]

\* the levels of the batch, from the first, that fit the region the caller
\* supplied to the Init of the encoder in use
LevelsFitting(e, levels) ==
  IF e.encoding = "RLE"
  THEN Cardinality({ n \in 1..Len(levels) :
                       RleBytes(e.rle_encoder, e.bit_width, levels, n)
                         <= e.rle_encoder.data_size })
  ELSE Cardinality({ n \in 1..Len(levels) :
                       BitPackedBytes(e.bit_packed_encoder, e.bit_width, n)
                         <= e.bit_packed_encoder.data_size })

\* LevelEncoder::Encode: the states the call can end in.  Dereferencing the
\* null bit_packed_encoder_ and writing past the caller's region are undefined:
\* the call crashes, or returns as if the memory had been there.
LevelEncoderEncode(e, levels) ==
  IF ~e.rle_encoder.set /\ ~e.bit_packed_encoder.set
  THEN { LevelThrow(e, "Encode", e.encoding, "Level encoders are not initialized.") }
  ELSE IF e.encoding = "RLE"
  THEN { EncodeRle(e, levels, RlePutCount(e.rle_encoder, e.bit_width, levels),
                   LevelsFitting(e, levels)) }
  ELSE IF ~e.bit_packed_encoder.set
  THEN { LevelCrash(e, levels) }
  ELSE IF BitPackedBytes(e.bit_packed_encoder, e.bit_width,
                         BitPackedPutCount(e.bit_packed_encoder, e.bit_width, levels))
            > e.bit_packed_encoder.data_size
  THEN { LevelCrash(e, levels),
         EncodeBitPacked(e, levels,
                         BitPackedPutCount(e.bit_packed_encoder, e.bit_width, levels),
                         LevelsFitting(e, levels), "returned") }
  ELSE { EncodeBitPacked(e, levels,
                         BitPackedPutCount(e.bit_packed_encoder, e.bit_width, levels),
                         LevelsFitting(e, levels), "returned") }

\* the test fixture before its first page
NoSerde ==
  [faux_data |-> <<>>, codec |-> 1, out_stream |-> <<>>, written |-> 0,
   reading |-> FALSE, in_stream |-> <<>>, pos |-> 0, read |-> <<>>,
   eos |-> FALSE, threw |-> FALSE]

NoCall == [op |-> "none", num_values |-> 0, status |-> "returned", ret |-> 0]

\* how the first Close of a writer ended; "none" before it
NoClose == [status |-> "none", ret |-> 0]

NoHistory ==
  [levels |-> 0, rep0 |-> 0, max_def |-> 0, failed |-> FALSE, late |-> FALSE,
   cuts |-> 0, writes |-> 0, first_close |-> NoClose]

Init ==
  /\ descr \in Descriptors
  /\ properties \in PropertySets
  \* the repeated column is written with statistics and a codec, the columns
  \* without repetition levels with every set of properties
  /\ descr.max_repetition_level > 0 => properties.statistics_enabled
  /\ build = "any"
  /\ \E expected_rows \in ExpectedRows :
       writer = TypedColumnWriter(expected_rows,
                                  MakeEncoding(descr, properties), properties)
  /\ pager = <<>>
  /\ metadata = <<>>
  /\ last = NoCall
  /\ hist = NoHistory
  /\ serde = NoSerde
  /\ level_encoder = NewLevelEncoder

----------------------------------------------------------------------------
\* The caller's arguments

\* definition levels of a batch: absent (NULL) for a required column
DefLevelArrays(n) ==
  IF descr.max_definition_level > 0
  THEN [1..n -> 0..descr.max_definition_level] ELSE {<<>>}

\* repetition levels of a batch: absent (NULL) for a non-repeated column; an
\* entry that continues a list (repetition level above 0) belongs to a list
\* that is not empty (definition level above 0)
RepLevelArrays(n, def_levels) ==
  IF descr.max_repetition_level > 0
  THEN { rep_levels \in [1..n -> 0..descr.max_repetition_level] :
           \A i \in 1..n :
             (descr.max_definition_level > 0 /\ rep_levels[i] > 0)
               => def_levels[i] > 0 }
  ELSE {<<>>}

\* the dense values of a batch: one per non-null leaf
ValueArrays(n, def_levels) == [1..ValuesToWrite(n, def_levels) -> Values]

\* lowest definition level that owns a slot of a spaced values array
MinSpacedDefLevel ==
  IF descr.is_optional THEN descr.max_definition_level - 1
  ELSE descr.max_definition_level

RECURSIVE SpacedValues(_, _)
\* the spaced values array of a batch: the dense values with a null slot for
\* every null leaf that owns a slot
SpacedValues(def_levels, dense) ==
  IF def_levels = <<>> THEN dense
  ELSE IF Head(def_levels) = descr.max_definition_level
  THEN <<Head(dense)>> \o SpacedValues(Tail(def_levels), Tail(dense))
  ELSE IF Head(def_levels) >= MinSpacedDefLevel
  THEN <<NullSlot>> \o SpacedValues(Tail(def_levels), dense)
  ELSE SpacedValues(Tail(def_levels), dense)

\* the validity bitmap that goes with a spaced values array
ValidBits(spaced) == [i \in 1..Len(spaced) |-> spaced[i] # NullSlot]

\* the builds the program may still turn out to be: told apart only by a
\* DCHECK that fails, which takes a closed writer
DChecks ==
  IF /\ build = "any"
     /\ writer.closed
     /\ descr.max_definition_level + descr.max_repetition_level > 0
  THEN BOOLEAN ELSE {build = "debug"}

\* the execution state at the start of a call
Start(dchecks) ==
  [w |-> writer, pager |-> pager, metadata |-> metadata, exc |-> "none",
   build |-> build, dchecks |-> dchecks,
   bytes |-> 0, ret |-> 0, spaced |-> 0, remaining |-> 0, value_offset |-> 0,
   cuts |-> hist.cuts]

StatusOf(s) ==
  IF s.exc = "none" THEN "returned"
  ELSE IF s.exc = "abort" THEN "aborted" ELSE "threw"

\* what a write call leaves behind
AfterWrite(op, s, num_values, def_levels, rep_levels) ==
  /\ writer' = s.w
  /\ pager' = s.pager
  /\ metadata' = s.metadata
  /\ build' = s.build
  /\ last' = [op |-> op, num_values |-> num_values, status |-> StatusOf(s),
              ret |-> 0]
  /\ hist' = [hist EXCEPT
                !.writes = @ + 1,
                !.levels = @ + num_values,
                !.rep0 = @ + CountEq(rep_levels, 0),
                !.max_def = @ + CountEq(def_levels, descr.max_definition_level),
                !.failed = @ \/ ~Ok(s),
                !.late = @ \/ writer.closed,
                !.cuts = s.cuts]
  /\ UNCHANGED <<descr, properties, serde, level_encoder>>

\* what a Close call leaves behind
AfterClose(s) ==
  /\ writer' = s.w
  /\ pager' = s.pager
  /\ metadata' = s.metadata
  /\ last' = [op |-> "Close", num_values |-> 0, status |-> StatusOf(s),
              ret |-> IF Ok(s) THEN s.ret ELSE 0]
  /\ hist' = [hist EXCEPT
                !.cuts = s.cuts,
                !.first_close =
                  IF @.status = "none"
                  THEN [status |-> StatusOf(s), ret |-> IF Ok(s) THEN s.ret ELSE 0]
                  ELSE @]
  /\ UNCHANGED <<descr, properties, build, serde, level_encoder>>

----------------------------------------------------------------------------
\* The public calls

Alive == last.status # "aborted"

WriteBatch ==
  /\ Alive
  /\ hist.writes < MaxWrites
  /\ \E num_values \in 0..MaxLevels :
       /\ hist.levels + num_values <= MaxLevels
       /\ \E def_levels \in DefLevelArrays(num_values) :
          \E rep_levels \in RepLevelArrays(num_values, def_levels) :
            \E values \in ValueArrays(num_values, def_levels), dchecks \in DChecks :
              AfterWrite("Write",
                         WriteBatchCall(Start(dchecks), num_values, def_levels,
                                        rep_levels, values),
                         num_values, def_levels, rep_levels)

WriteBatchSpaced ==
  /\ Alive
  /\ hist.writes < MaxWrites
  /\ \E num_values \in 0..MaxLevels :
       /\ hist.levels + num_values <= MaxLevels
       /\ \E def_levels \in DefLevelArrays(num_values) :
          \E rep_levels \in RepLevelArrays(num_values, def_levels) :
            \E dense \in ValueArrays(num_values, def_levels), dchecks \in DChecks :
              LET values == SpacedValues(def_levels, dense)
              IN AfterWrite("Write",
                            WriteBatchSpacedCall(Start(dchecks), num_values, def_levels,
                                                 rep_levels, ValidBits(values),
                                                 0, values),
                            num_values, def_levels, rep_levels)

Close ==
  /\ Alive
  /\ AfterClose(CloseWriter(Start(FALSE)))

Next == WriteBatch \/ WriteBatchSpaced \/ Close

Spec == Init /\ [][Next]_vars

----------------------------------------------------------------------------
\* The page serialization test as a state machine of its own: no column
\* writer takes part.

NoColumnWriter ==
  /\ descr = <<>> /\ properties = <<>> /\ build = "any" /\ writer = <<>>
  /\ pager = <<>> /\ metadata = <<>> /\ last = NoCall /\ hist = NoHistory

SerdeInit ==
  /\ NoColumnWriter
  /\ level_encoder = NewLevelEncoder
  /\ \E faux_data \in FauxData : serde = [NoSerde EXCEPT !.faux_data = faux_data]

\* one round of the write loop: compress the page, write its header and its
\* compressed bytes
CompressAndWritePage ==
  /\ serde.codec <= Len(codec_types)
  /\ ~serde.reading
  /\ serde.written < Len(serde.faux_data)
  /\ serde' = [serde EXCEPT
                 !.out_stream = WritePage(@, codec_types[serde.codec],
                                          serde.faux_data[serde.written + 1]),
                 !.written = @ + 1]
  /\ UNCHANGED <<descr, properties, build, writer, pager, metadata, last, hist,
                 level_encoder>>

\* EndStream and a page reader over the bytes written
InitSerializedPageReader ==
  /\ serde.codec <= Len(codec_types)
  /\ ~serde.reading
  /\ serde.written = Len(serde.faux_data)
  /\ serde' = [serde EXCEPT !.reading = TRUE, !.in_stream = serde.out_stream,
                            !.pos = 0]
  /\ UNCHANGED <<descr, properties, build, writer, pager, metadata, last, hist,
                 level_encoder>>

NextPage ==
  /\ serde.reading /\ ~serde.eos /\ ~serde.threw
  /\ serde' = ReadPage(serde, codec_types[serde.codec])
  /\ UNCHANGED <<descr, properties, build, writer, pager, metadata, last, hist,
                 level_encoder>>

\* the stream is reset for the next codec
ResetStream ==
  /\ serde.reading /\ serde.eos
  /\ serde' = [NoSerde EXCEPT !.faux_data = serde.faux_data,
                              !.codec = serde.codec + 1]
  /\ UNCHANGED <<descr, properties, build, writer, pager, metadata, last, hist,
                 level_encoder>>

SerdeNext == CompressAndWritePage \/ InitSerializedPageReader \/ NextPage \/ ResetStream

SerdeSpec == SerdeInit /\ [][SerdeNext]_vars

----------------------------------------------------------------------------
\* A LevelEncoder on its own, called through Init, MaxBufferSize and Encode.

LevelInit ==
  /\ NoColumnWriter
  /\ serde = NoSerde
  /\ level_encoder = NewLevelEncoder

EncoderAlive ==
  /\ level_encoder.calls < MaxEncoderCalls
  /\ level_encoder.call.status # "crashed"

EncoderInit ==
  /\ EncoderAlive
  /\ \E encoding \in LevelEncodings, max_level \in MaxLevelChoices,
        num_buffered_values \in NumBufferedChoices, data_size \in DataSizes :
       level_encoder' = LevelEncoderInit(level_encoder, encoding, max_level,
                                         num_buffered_values, data_size)
  /\ UNCHANGED <<descr, properties, build, writer, pager, metadata, last, hist, serde>>

EncoderMaxBufferSize ==
  /\ EncoderAlive
  /\ \E encoding \in LevelEncodings, max_level \in MaxLevelChoices,
        num_buffered_values \in NumBufferedChoices :
       level_encoder' = LevelEncoderMaxBufferSize(level_encoder, encoding, max_level,
                                                  num_buffered_values)
  /\ UNCHANGED <<descr, properties, build, writer, pager, metadata, last, hist, serde>>

EncoderEncode ==
  /\ EncoderAlive
  /\ \E levels \in LevelBatches :
       level_encoder' \in LevelEncoderEncode(level_encoder, levels)
  /\ UNCHANGED <<descr, properties, build, writer, pager, metadata, last, hist, serde>>

LevelNext == EncoderInit \/ EncoderMaxBufferSize \/ EncoderEncode

LevelSpec == LevelInit /\ [][LevelNext]_vars

----------------------------------------------------------------------------
\* What the sink has received

\* positions of the dictionary pages in the sink's log
DictionaryPageCalls ==
  { i \in 1..Len(pager) : pager[i].call = "WriteDictionaryPage" }

\* positions of the data pages in the sink's log
DataPageCalls == { i \in 1..Len(pager) : pager[i].call = "WriteDataPage" }

\* the data pages the sink has received, in order
SinkDataPages ==
  SelectSeq(pager, LAMBDA c : c.call = "WriteDataPage")

----------------------------------------------------------------------------
\* C1: a writer created with a dictionary encoding has, once the writes are
\* followed by Close, handed exactly one dictionary page to the sink, and the
\* sink received it before every data page; a writer created without a
\* dictionary encoding never hands a dictionary page to the sink.
C1_OneDictionaryPageFirst ==
  /\ ~writer.has_dictionary => DictionaryPageCalls = {}
  /\ (writer.has_dictionary /\ ~hist.late) =>
       /\ Cardinality(DictionaryPageCalls) <= 1
       /\ DataPageCalls # {} => pager[1].call = "WriteDictionaryPage"
       /\ writer.closed => DictionaryPageCalls = {1}

\* a dictionary writer that fell back, went on writing and was closed
C1_Witness ==
  /\ writer.has_dictionary /\ writer.fallback /\ writer.closed /\ ~hist.late
  /\ Cardinality(DataPageCalls) >= 2

\* C2: while has_dictionary is set, fallback_ is not and Close has not started,
\* the sink has received no data page, and every page cut so far is in
\* data_pages_.
C2_NoDataPageWhileDictionaryActive ==
  (writer.has_dictionary /\ ~writer.fallback /\ ~writer.closed) =>
    /\ DataPageCalls = {}
    /\ Len(writer.data_pages) = hist.cuts

\* two pages cut and deferred by a dictionary writer still open
C2_Witness ==
  /\ writer.has_dictionary /\ ~writer.fallback /\ ~writer.closed
  /\ Len(writer.data_pages) >= 2

\* C3 as stated: on fallback the deferred (dictionary-encoded) data pages
\* reach the sink before the dictionary page, and the pages cut after the
\* fallback are PLAIN.
C3_DeferredPagesBeforeDictionaryPage ==
  (writer.fallback /\ ~hist.late) =>
    \A i \in DataPageCalls :
      /\ ~pager[i].page.fallback => \A j \in DictionaryPageCalls : i < j
      /\ pager[i].page.fallback => pager[i].page.encoding = "PLAIN"

\* C3 amended: on fallback the dictionary page reaches the sink first, then
\* every deferred (dictionary-encoded) data page, and the pages cut after the
\* fallback are PLAIN and follow them.
C3_DictionaryPageBeforeDeferredPages ==
  (writer.fallback /\ ~hist.late) =>
    /\ writer.data_pages = <<>>
    /\ \A i \in DataPageCalls :
         /\ ~pager[i].page.fallback =>
              /\ pager[i].page.encoding = properties.dictionary_page_encoding
              /\ \A j \in DictionaryPageCalls : j < i
         /\ pager[i].page.fallback =>
              /\ pager[i].page.encoding = "PLAIN"
              /\ \A k \in DataPageCalls : ~pager[k].page.fallback => k < i

\* a fallback that flushed a dictionary-encoded page, and a PLAIN page after it
C3_Witness ==
  /\ writer.fallback /\ ~hist.late
  /\ \E i, k \in DataPageCalls : ~pager[i].page.fallback /\ pager[k].page.fallback

\* C4: after write calls that all returned, num_rows_ is the number of
\* submitted repetition levels equal to 0 for a repeated column and the number
\* of submitted level entries for a non-repeated one; it never counts more.
C4_RowsCounted ==
  /\ ~hist.failed =>
       writer.num_rows = (IF descr.max_repetition_level > 0 THEN hist.rep0
                          ELSE hist.levels)
  /\ writer.num_rows <= (IF descr.max_repetition_level > 0 THEN hist.rep0
                         ELSE hist.levels)

\* a repeated column: two level entries in two calls, one row
C4_Witness ==
  /\ descr.max_repetition_level > 0 /\ ~hist.failed
  /\ hist.writes = 2 /\ hist.levels = 2 /\ hist.rep0 = 1 /\ writer.num_rows = 1

\* C5 as stated: in every state before Close, num_rows_ <= expected_rows_.
C5_RowsNeverExceedExpected ==
  ~writer.closed => writer.num_rows <= writer.expected_rows

\* C5 amended: num_rows_ <= expected_rows_ as long as every write call
\* returned; the mini-batch that takes num_rows_ above expected_rows_ throws
\* after it has counted its rows, so a write throws exactly with num_rows_
\* above expected_rows_, and the counter stays there.
C5_RowsWithinExpectedUntilFailure ==
  /\ ~hist.failed => writer.num_rows <= writer.expected_rows
  /\ (last.op = "Write" /\ last.status = "threw") =>
       writer.num_rows > writer.expected_rows
  /\ (last.op = "Write" /\ last.status = "returned") =>
       writer.num_rows <= writer.expected_rows

\* a write that threw on a writer not yet closed
C5_Witness ==
  /\ last.op = "Write" /\ last.status = "threw" /\ ~writer.closed
  /\ writer.num_rows = writer.expected_rows + 1

\* C6: Close returns (total_bytes_written_) exactly when num_rows_ equals
\* expected_rows_, and throws otherwise.
C6_CloseReturnsIffRowsMatch ==
  last.op = "Close" =>
    /\ (last.status = "returned") <=> (writer.num_rows = writer.expected_rows)
    /\ last.status = "returned" => last.ret = writer.total_bytes_written
    /\ last.status # "returned" => last.status = "threw"

\* a Close that threw on a chunk with more rows than expected
C6_Witness ==
  /\ last.op = "Close" /\ last.status = "threw"
  /\ writer.num_rows > writer.expected_rows

----------------------------------------------------------------------------
\* Sums over the pages cut so far

RECURSIVE Sum(_)
\* sum of a sequence of numbers
Sum(numbers) ==
  IF numbers = <<>> THEN 0 ELSE Head(numbers) + Sum(Tail(numbers))

\* the data pages cut so far: those the sink has, then those still deferred
PagesCut ==
  [i \in 1..Len(SinkDataPages) |-> SinkDataPages[i].page] \o writer.data_pages

\* the level entries a page body holds: the entries of its level chunks, or
\* the values of a column without levels
LevelEntries(page) ==
  IF \E i \in 1..Len(page.buffer.parts) : page.buffer.parts[i].part \in {"def", "rep"}
  THEN { page.buffer.parts[i].count :
           i \in { j \in 1..Len(page.buffer.parts) :
                     page.buffer.parts[j].part \in {"def", "rep"} } }
  ELSE { Sum([i \in 1..Len(page.buffer.parts) |-> page.buffer.parts[i].count]) }

\* C7: the num_values of every data page is the number of level entries
\* buffered since the previous cut, whatever the number of non-null values;
\* the pages and the entries still buffered add up to the level entries
\* submitted, and after Close the pages at the sink alone do.
C7_PageNumValuesAreLevelEntries ==
  (~hist.failed /\ ~hist.late) =>
    /\ \A i \in 1..Len(PagesCut) :
         /\ LevelEntries(PagesCut[i]) = {PagesCut[i].num_values}
         /\ PagesCut[i].encoded_values <= PagesCut[i].num_values
    /\ Sum([i \in 1..Len(PagesCut) |-> PagesCut[i].num_values])
         + writer.num_buffered_values = hist.levels
    /\ writer.closed =>
         Sum([i \in 1..Len(SinkDataPages) |-> SinkDataPages[i].page.num_values])
           = hist.levels

\* a closed chunk of two pages, one of them with level entries and no value
C7_Witness ==
  /\ writer.closed /\ ~hist.failed /\ ~hist.late
  /\ Len(SinkDataPages) = 2
  /\ \E i \in 1..2 : /\ SinkDataPages[i].page.num_values > 0
                     /\ SinkDataPages[i].page.encoded_values = 0

\* C8: the sink receives the data pages in the order they were cut, the
\* deferred pages are queued in that order and follow the pages already at the
\* sink, and the dictionary page, if any, is the first page of the sink.
C8_SinkOrderIsCutOrder ==
  /\ \A i \in 1..Len(PagesCut) : PagesCut[i].cut = i
  /\ Len(PagesCut) = hist.cuts
  /\ ~hist.late => DictionaryPageCalls \subseteq {1}

\* a deferred page and the residual page of the flush at the sink, after the
\* dictionary page
C8_Witness ==
  /\ writer.has_dictionary /\ ~hist.late /\ DictionaryPageCalls = {1}
  /\ Len(SinkDataPages) = 2
  /\ \A i \in 1..2 : ~SinkDataPages[i].page.fallback
  /\ SinkDataPages[1].page.encoded_values > 0
  /\ SinkDataPages[2].page.encoded_values = 0

\* C9: for a nullable column with statistics, the statistics of every data
\* page count the non-null and the null entries of that page alone, and after
\* Close the non-null counts of the pages at the sink add up to the submitted
\* definition levels equal to max_definition_level, the null counts to the
\* other level entries.
C9_PageStatisticsCountLevels ==
  (/\ properties.statistics_enabled /\ descr.max_definition_level > 0
   /\ ~hist.failed /\ ~hist.late) =>
    /\ \A i \in 1..Len(PagesCut) :
         /\ PagesCut[i].statistics.is_set
         /\ PagesCut[i].statistics.num_values = PagesCut[i].encoded_values
         /\ PagesCut[i].statistics.null_count
              = PagesCut[i].num_values - PagesCut[i].encoded_values
    /\ writer.closed =>
         /\ Sum([i \in 1..Len(SinkDataPages) |->
                   SinkDataPages[i].page.statistics.num_values]) = hist.max_def
         /\ Sum([i \in 1..Len(SinkDataPages) |->
                   SinkDataPages[i].page.statistics.null_count])
              = hist.levels - hist.max_def

\* a closed nullable chunk with statistics: two pages, a value and a null
C9_Witness ==
  /\ properties.statistics_enabled /\ descr.max_definition_level > 0
  /\ writer.closed /\ ~hist.failed /\ ~hist.late
  /\ Len(SinkDataPages) = 2 /\ hist.max_def = 1 /\ hist.levels = 2

\* C10: a write call with num_values = 0 returns and changes nothing: no page
\* is cut, the sink receives nothing, fallback_, num_rows_ and the buffered
\* counters stay as they were.
C10_ZeroValueBatchIsNoOp ==
  [][(last'.op = "Write" /\ last'.num_values = 0 /\ hist'.writes = hist.writes + 1) =>
       /\ last'.status = "returned"
       /\ pager' = pager
       /\ hist'.cuts = hist.cuts
       /\ writer' = writer]_vars

----------------------------------------------------------------------------
\* C11 as stated: with dictionary_pagesize_limit = 0 a dictionary writer falls
\* back on the first value, the dictionary page written at the fallback holds
\* no entry or one, and the pages cut after it are PLAIN.
C11_ZeroLimitDictionaryPageAtMostOneEntry ==
  (writer.has_dictionary /\ properties.dictionary_pagesize_limit = 0 /\ ~hist.late) =>
    /\ (hist.writes > 0 /\ ~hist.failed) => writer.fallback
    /\ \A j \in DictionaryPageCalls : pager[j].page.num_values <= 1
    /\ \A i \in DataPageCalls :
         pager[i].page.fallback => pager[i].page.encoding = "PLAIN"

\* C11 amended: with dictionary_pagesize_limit = 0 a dictionary writer falls
\* back at the end of the first mini-batch, whatever it holds; the dictionary
\* page holds the distinct values of that mini-batch, at most
\* write_batch_size; at most one data page holds dictionary indices and the
\* pages cut after the fallback are PLAIN.
C11_ZeroLimitFallsBackInFirstMiniBatch ==
  (writer.has_dictionary /\ properties.dictionary_pagesize_limit = 0 /\ ~hist.late) =>
    /\ (hist.writes > 0 /\ ~hist.failed) => writer.fallback
    /\ \A j \in DictionaryPageCalls :
         pager[j].page.num_values <= properties.write_batch_size
    /\ \A i \in DataPageCalls :
         /\ pager[i].page.fallback => pager[i].page.encoding = "PLAIN"
         /\ ~pager[i].page.fallback =>
              /\ i = 2
              /\ pager[i].page.num_values <= properties.write_batch_size

\* a fallback in a first mini-batch of two distinct values
C11_Witness ==
  /\ writer.has_dictionary /\ properties.dictionary_pagesize_limit = 0
  /\ writer.fallback /\ ~hist.late
  /\ \E j \in DictionaryPageCalls : pager[j].page.num_values = 2
  /\ \E i \in DataPageCalls : ~pager[i].page.fallback

----------------------------------------------------------------------------
\* data_pagesize at or below the estimate either encoder gives for one value
OneValueFillsPage ==
  /\ properties.data_pagesize
       <= EstimatedDataEncodedSize(EncoderPut(NewPlainEncoder, <<1>>, 1))
  /\ properties.data_pagesize
       <= EstimatedDataEncodedSize(EncoderPut(NewDictEncoder, <<1>>, 1))

\* whether the page body has a chunk of the kind
HasPart(page, kind) ==
  \E i \in 1..Len(page.buffer.parts) : page.buffer.parts[i].part = kind

\* a well-formed page: num_values is its level count, and a level chunk is
\* there exactly when the column has levels of the kind
WellFormed(page) ==
  /\ LevelEntries(page) = {page.num_values}
  /\ HasPart(page, "def") <=> (descr.max_definition_level > 0)
  /\ HasPart(page, "rep") <=> (descr.max_repetition_level > 0)

\* C12 as stated: with a data_pagesize that one value fills, every data page
\* holds exactly one value (one level entry, or one encoded value) and is
\* well-formed.
C12_OneValuePerPage ==
  (OneValueFillsPage /\ ~hist.failed /\ ~hist.late) =>
    \A i \in 1..Len(PagesCut) :
      /\ PagesCut[i].num_values = 1 \/ PagesCut[i].encoded_values = 1
      /\ WellFormed(PagesCut[i])

\* C12 amended: with a data_pagesize that one value fills, a page is cut at
\* the end of every mini-batch that leaves a value in the encoder, so no value
\* stays buffered after a call and every data page holds the values of one
\* mini-batch, at most write_batch_size; every page is well-formed.
C12_OneMiniBatchPerPage ==
  (OneValueFillsPage /\ ~hist.failed /\ ~hist.late) =>
    /\ writer.num_buffered_encoded_values = 0
    /\ \A i \in 1..Len(PagesCut) :
         /\ PagesCut[i].encoded_values <= properties.write_batch_size
         /\ WellFormed(PagesCut[i])

\* a page that holds the two values of one mini-batch
C12_Witness ==
  /\ OneValueFillsPage /\ ~hist.failed /\ ~hist.late
  /\ \E i \in 1..Len(PagesCut) : PagesCut[i].encoded_values = 2

----------------------------------------------------------------------------
\* C13: once Close has been called, no later call hands a page to the sink or
\* changes num_rows_, the buffered counters or total_bytes_written_.
C13_InertAfterClose ==
  [][writer.closed =>
       /\ pager' = pager
       /\ writer'.num_rows = writer.num_rows
       /\ writer'.num_buffered_values = writer.num_buffered_values
       /\ writer'.num_buffered_encoded_values = writer.num_buffered_encoded_values
       /\ writer'.total_bytes_written = writer.total_bytes_written]_vars

----------------------------------------------------------------------------
\* the byte counts the sink has returned, added up
SinkBytes == Sum([i \in 1..Len(pager) |-> pager[i].bytes])

\* C14: total_bytes_written_ never decreases; it is the sum of the byte counts
\* the sink returned for the dictionary page and the data pages written so far
\* (a deferred page counts once it is written), and a Close that returns
\* returns that sum.
C14_TotalBytesWritten ==
  [][/\ writer'.total_bytes_written >= writer.total_bytes_written
     /\ writer'.total_bytes_written = SinkBytes'
     /\ (last'.op = "Close" /\ last'.status = "returned") => last'.ret = SinkBytes']_vars

\* a dictionary chunk closed with its deferred pages written, and the bytes
\* returned
C14_Witness ==
  /\ last.op = "Close" /\ last.status = "returned" /\ last.ret > 0
  /\ writer.has_dictionary /\ ~writer.fallback /\ ~hist.late
  /\ Len(SinkDataPages) = 2

----------------------------------------------------------------------------
\* C15: the factory gives a column with dictionary enabled (and a type other
\* than BOOLEAN) the configured dictionary index encoding, any other column
\* its encoding(path), and has_dictionary is set exactly for PLAIN_DICTIONARY
\* and RLE_DICTIONARY.
C15_FactorySelectsIndexEncoding ==
  last.op = "none" =>
    /\ writer.encoding =
         (IF properties.dictionary_enabled /\ descr.physical_type # "BOOLEAN"
          THEN properties.dictionary_index_encoding
          ELSE properties.encoding)
    /\ writer.has_dictionary
         <=> (writer.encoding \in {"PLAIN_DICTIONARY", "RLE_DICTIONARY"})

\* C16: after Close of a dictionary writer that never fell back, every data
\* page at the sink is tagged with the configured dictionary index encoding,
\* the property that also tags the dictionary page.
C16_DataPagesTaggedWithIndexEncoding ==
  (writer.has_dictionary /\ writer.closed /\ ~hist.late /\ ~hist.failed) =>
    (~writer.fallback =>
       /\ \A i \in DataPageCalls :
            pager[i].page.encoding = properties.dictionary_index_encoding
       /\ \A j \in DictionaryPageCalls :
            pager[j].page.encoding = properties.dictionary_index_encoding)

----------------------------------------------------------------------------
\* the kinds of the chunks of a page body, in order
PartKinds(page) ==
  [i \in 1..Len(page.buffer.parts) |-> page.buffer.parts[i].part]

\* the level chunks a page of the column has, in order
LevelKinds ==
  (IF descr.max_repetition_level > 0 THEN <<"rep">> ELSE <<>>)
    \o (IF descr.max_definition_level > 0 THEN <<"def">> ELSE <<>>)

\* C17: the body of every data page is the repetition-level chunk, the
\* definition-level chunk and the value payload, in this order; a level chunk
\* is there (with its length prefix) exactly when the column has levels of the
\* kind; uncompressed_size is the sum of the sizes of the parts, compressed or
\* not.
C17_PageBodyLayout ==
  \A i \in 1..Len(PagesCut) :
    /\ \/ PartKinds(PagesCut[i]) = LevelKinds \o <<"Plain">>
       \/ PartKinds(PagesCut[i]) = LevelKinds \o <<"Dict">>
       \/ /\ PartKinds(PagesCut[i]) = LevelKinds
          /\ PagesCut[i].encoded_values = 0
    /\ \A k \in 1..Len(PagesCut[i].buffer.parts) :
         PagesCut[i].buffer.parts[k].part \in {"rep", "def"} =>
           PagesCut[i].buffer.parts[k].size >= LengthPrefix
    /\ PagesCut[i].uncompressed_size
         = Sum([k \in 1..Len(PagesCut[i].buffer.parts) |->
                  PagesCut[i].buffer.parts[k].size])

\* a compressed page of the repeated column, with its three chunks
C17_Witness ==
  /\ Len(PagesCut) = 2
  /\ \E i \in 1..Len(PagesCut) :
       /\ PartKinds(PagesCut[i]) \in {<<"rep", "def", "Plain">>, <<"rep", "def", "Dict">>}
       /\ PagesCut[i].buffer.compressed
       /\ PagesCut[i].buffer.size < PagesCut[i].uncompressed_size

----------------------------------------------------------------------------
\* C18: a Close that fails on the row count fails after the chunk was
\* finalized: closed_ is set, the dictionary page of a dictionary writer, the
\* residual page and the deferred pages are at the sink, the chunk statistics
\* were attached when set, after the pages and before the sink was closed, and
\* the sink was closed last.
C18_CloseFailsAfterFinalization ==
  (last.op = "Close" /\ last.status = "threw" /\ ~hist.late) =>
    /\ writer.num_rows # writer.expected_rows
    /\ writer.closed
    /\ writer.has_dictionary => DictionaryPageCalls = {1}
    /\ writer.data_pages = <<>> /\ writer.num_buffered_values = 0
    /\ Len(SinkDataPages) = hist.cuts
    /\ pager # <<>> /\ pager[Len(pager)].call = "Close"
    /\ pager[Len(pager)].page
         = [has_dictionary |-> writer.has_dictionary, fallback |-> writer.fallback]
    /\ \A i \in 1..(Len(pager) - 1) : pager[i].call # "Close"
    /\ IF properties.statistics_enabled
       THEN /\ Len(metadata) = 1
            /\ metadata[1].statistics.is_set
            /\ metadata[1].pager_calls = Len(pager) - 1
       ELSE metadata = <<>>

\* a failed Close of a dictionary chunk with statistics, a deferred page and a
\* residual page
C18_Witness ==
  /\ last.op = "Close" /\ last.status = "threw" /\ ~hist.late
  /\ writer.has_dictionary /\ ~writer.fallback
  /\ Len(SinkDataPages) >= 1 /\ Len(metadata) = 1

----------------------------------------------------------------------------
----------------------------------------------------------------------------
\* the data pages at the sink that were cut before the fallback
DictionaryEncodedPages(pages) == SelectSeq(pages, LAMBDA c : ~c.page.fallback)

\* C20: fallback_ never goes back to false.  The call in which it becomes true
\* on an open writer found the dictionary at or over the limit: in that call
\* the sink received the dictionary page (of that size) before anything else,
\* then every deferred page in order and the residual page, all of them
\* before any page cut after the fallback; the call leaves data_pages_ empty,
\* a Plain encoder holding only the values buffered since and the tag PLAIN.
\* A dictionary writer that has not fallen back after a write that returned
\* has a dictionary under the limit, and after the fallback every page cut is at the sink when the call
\* ends.
C20_FallbackOneWayAtomic ==
  [][/\ writer.fallback => writer'.fallback
     /\ (~writer.fallback /\ writer'.fallback /\ ~writer.closed) =>
          /\ writer.has_dictionary
          /\ pager = <<>>
          /\ pager'[1].call = "WriteDictionaryPage"
          /\ pager'[1].page.buffer.size >= properties.dictionary_pagesize_limit
          /\ DictionaryPageCalls' = {1}
          /\ Len(DictionaryEncodedPages(SinkDataPages')) >= Len(writer.data_pages)
          /\ \A i \in 1..Len(writer.data_pages) :
               SinkDataPages'[i].page = writer.data_pages[i]
          /\ \A i \in 1..Len(SinkDataPages') :
               /\ SinkDataPages'[i].page.fallback
                    = (i > Len(DictionaryEncodedPages(SinkDataPages')))
               /\ SinkDataPages'[i].page.encoding
                    = (IF SinkDataPages'[i].page.fallback THEN "PLAIN"
                       ELSE writer.encoding)
          /\ writer'.data_pages = <<>>
          /\ writer'.encoding = "PLAIN"
          /\ writer'.current_encoder.kind = "Plain"
          /\ writer'.current_encoder.dict = <<>>
          /\ Len(writer'.current_encoder.buffered)
               = writer'.num_buffered_encoded_values
          /\ last'.status = "returned" =>
               Sum([i \in 1..Len(SinkDataPages') |-> SinkDataPages'[i].page.num_values])
                 + writer'.num_buffered_values = hist'.levels
     /\ (/\ writer'.has_dictionary /\ ~writer'.fallback
         /\ hist'.writes > 0 /\ ~hist'.failed /\ ~hist'.late) =>
          DictEncodedSize(writer'.current_encoder)
            < properties.dictionary_pagesize_limit
     /\ writer.fallback =>
          /\ writer'.data_pages = <<>>
          /\ Len(SinkDataPages') - Len(SinkDataPages) = hist'.cuts - hist.cuts]_vars

\* a writer that fell back with a deferred page and a residual page
C20_Witness ==
  /\ writer.fallback /\ ~hist.late
  /\ properties.dictionary_pagesize_limit > 0
  /\ Len(DictionaryEncodedPages(SinkDataPages)) = 2

----------------------------------------------------------------------------
\* C21: the bytes of every data page the sink has received are the bytes the
\* page had when it was cut, and a page waiting in data_pages_ owns a copy of
\* those bytes, whatever the writer's reusable buffers hold by now.
C21_PageBytesAsCut ==
  /\ \A i \in 1..Len(SinkDataPages) :
       SinkDataPages[i].page.buffer = SinkDataPages[i].page.bytes_at_cut
  /\ \A i \in 1..Len(writer.data_pages) :
       /\ writer.data_pages[i].data = "copy"
       /\ writer.data_pages[i].buffer = writer.data_pages[i].bytes_at_cut

\* a deferred page written after a later cut had put other bytes into the
\* reusable buffers
C21_Witness ==
  /\ ~hist.late
  /\ \E i \in 1..Len(SinkDataPages) :
       /\ SinkDataPages[i].page.data = "copy"
       /\ SinkDataPages[i].page.cut < hist.cuts
       /\ SinkDataPages[i].page.buffer
            # (IF HasCompressor THEN writer.compressed_data
               ELSE writer.uncompressed_data)

----------------------------------------------------------------------------
\* the dictionary pages the first Close will write: one for a dictionary
\* writer that has not fallen back
PendingDictionaryPages ==
  IF writer.has_dictionary /\ ~writer.fallback THEN 1 ELSE 0

\* the residual pages the flush will cut: one when values are buffered
ResidualPages == IF writer.num_buffered_values > 0 THEN 1 ELSE 0

\* positions of the Close calls in the sink's log
CloseCalls == { i \in 1..Len(pager) : pager[i].call = "Close" }

\* C22: the first Close of a writer adds to the sink's log, in this order, the
\* dictionary page (if the writer has a dictionary and has not fallen back),
\* the deferred pages in their order, the residual page cut from the buffered
\* values (if any) and the sink's Close with (has_dictionary, fallback); the
\* chunk statistics are attached after the last page and before the sink is
\* closed; nothing stays queued or buffered; the sink's Close is the last call
\* the first Close makes, and no later call of the writer closes the sink
\* again.
C22_FirstCloseOrder ==
  [][/\ (~writer.closed /\ writer'.closed) =>
          /\ Len(pager') = Len(pager) + PendingDictionaryPages
                             + Len(writer.data_pages) + ResidualPages + 1
          /\ Take(pager', Len(pager)) = pager
          /\ PendingDictionaryPages = 1 =>
               pager'[Len(pager) + 1].call = "WriteDictionaryPage"
          /\ \A i \in 1..Len(writer.data_pages) :
               pager'[Len(pager) + PendingDictionaryPages + i]
                 = [call |-> "WriteDataPage", page |-> writer.data_pages[i],
                    bytes |-> writer.data_pages[i].buffer.size + HeaderSize]
          /\ ResidualPages = 1 =>
               /\ pager'[Len(pager') - 1].call = "WriteDataPage"
               /\ pager'[Len(pager') - 1].page.cut = hist.cuts + 1
               /\ pager'[Len(pager') - 1].page.num_values = writer.num_buffered_values
          /\ pager'[Len(pager')]
               = [call |-> "Close",
                  page |-> [has_dictionary |-> writer.has_dictionary,
                            fallback |-> writer.fallback],
                  bytes |-> 0]
          /\ IF properties.statistics_enabled
             THEN /\ Len(metadata') = Len(metadata) + 1
                  /\ metadata'[Len(metadata')].pager_calls = Len(pager') - 1
             ELSE metadata' = metadata
          /\ writer'.data_pages = <<>>
          /\ writer'.num_buffered_values = 0
          /\ hist'.cuts = hist.cuts + ResidualPages
     /\ Cardinality(CloseCalls') <= 1]_vars

\* a first Close that wrote the dictionary page, a deferred page and the
\* residual page and attached the statistics
C22_Witness ==
  /\ last.op = "Close" /\ ~hist.late
  /\ writer.has_dictionary /\ ~writer.fallback
  /\ Len(SinkDataPages) = 2
  /\ Len(metadata) = 1
  /\ Len(pager) = 4

----------------------------------------------------------------------------
\* C23: an Encode that returns has consumed n levels of the batch, 0 <= n <=
\* the number requested, namely the leading levels that fit the region the
\* caller supplied, and has written no more bytes than that region holds; an
\* Encode on an encoder whose last Init returned does not fail; an Encode on
\* an encoder no Init has returned from fails with "not initialized"; Init and
\* MaxBufferSize fail, with "unknown encoding", exactly for an encoding other
\* than RLE and BIT_PACKED.
C23_EncodeStopsAtCallersBuffer ==
  /\ (level_encoder.call.op = "Encode" /\ level_encoder.call.status = "returned") =>
       /\ level_encoder.call.ret \in 0..level_encoder.call.batch_size
       /\ level_encoder.call.ret = level_encoder.call.fitting
       /\ level_encoder.call.written <= level_encoder.call.data_size
  /\ (level_encoder.call.op = "Encode" /\ level_encoder.encoding \in {"RLE", "BIT_PACKED"}) =>
       level_encoder.call.status = "returned"
  /\ (level_encoder.call.op = "Encode" /\ ~level_encoder.initialized) =>
       /\ level_encoder.call.status = "threw"
       /\ level_encoder.call.what = "Level encoders are not initialized."
  /\ level_encoder.call.op \in {"Init", "MaxBufferSize"} =>
       IF level_encoder.call.encoding \in {"RLE", "BIT_PACKED"}
       THEN level_encoder.call.status = "returned"
       ELSE /\ level_encoder.call.status = "threw"
            /\ level_encoder.call.what = "Unknown encoding type for levels."

----------------------------------------------------------------------------
\* the level kinds of the column whose sink holds as many entries as
\* num_buffered_values_
SinksHoldBufferedLevels ==
  /\ descr.max_definition_level > 0 =>
       Len(writer.definition_levels_sink) = writer.num_buffered_values
  /\ descr.max_repetition_level > 0 =>
       Len(writer.repetition_levels_sink) = writer.num_buffered_values

\* C24 as stated: between public calls each level sink of the column holds
\* num_buffered_values entries.
C24_SinksHoldBufferedLevelsAlways ==
  last.status # "aborted" => SinksHoldBufferedLevels

\* C24 as amended: between public calls each level sink of the column holds
\* num_buffered_values entries as long as no write has failed, and at least
\* that many after a failed write (which has appended its levels and not
\* counted them); every page cut holds exactly num_values level entries; and
\* a Close not followed by a write leaves both counters at zero and, if no
\* write had failed, both sinks empty.
C24_SinksHoldBufferedLevelsUntilFailure ==
  last.status # "aborted" =>
    /\ ~hist.failed => SinksHoldBufferedLevels
    /\ descr.max_definition_level > 0 =>
         Len(writer.definition_levels_sink) >= writer.num_buffered_values
    /\ descr.max_repetition_level > 0 =>
         Len(writer.repetition_levels_sink) >= writer.num_buffered_values
    /\ descr.max_definition_level = 0 => writer.definition_levels_sink = <<>>
    /\ descr.max_repetition_level = 0 => writer.repetition_levels_sink = <<>>
    /\ writer.num_buffered_encoded_values <= writer.num_buffered_values
    /\ \A i \in 1..Len(PagesCut) : LevelEntries(PagesCut[i]) = {PagesCut[i].num_values}
    /\ (writer.closed /\ ~hist.late) =>
         /\ writer.num_buffered_values = 0
         /\ writer.num_buffered_encoded_values = 0
         /\ ~hist.failed =>
              /\ writer.definition_levels_sink = <<>>
              /\ writer.repetition_levels_sink = <<>>

\* levels buffered after a page cut, on an open writer with both level kinds
C24_Witness ==
  /\ ~hist.failed /\ ~writer.closed
  /\ hist.cuts >= 1
  /\ writer.num_buffered_values = 1
  /\ Len(writer.definition_levels_sink) = 1
  /\ Len(writer.repetition_levels_sink) = 1

----------------------------------------------------------------------------
\* C25: between public calls data_pages_ is empty unless the writer has a
\* dictionary and has not fallen back, and is empty once Close has run; the
\* pages in it were cut before the fallback; and every page cut so far is at
\* the sink or still in data_pages_.
C25_DeferredQueueOnlyWhileDictionaryActive ==
  last.status # "aborted" =>
    /\ (~writer.has_dictionary \/ writer.fallback) => writer.data_pages = <<>>
    /\ writer.closed => writer.data_pages = <<>>
    /\ \A i \in 1..Len(writer.data_pages) : ~writer.data_pages[i].fallback
    /\ Len(SinkDataPages) + Len(writer.data_pages) = hist.cuts

----------------------------------------------------------------------------
\* C26: every data page handed to the sink or placed in data_pages_ has
\* num_values > 0: no sequence of WriteBatch, WriteBatchSpaced and Close
\* calls cuts a data page without level entries.
C26_NoEmptyDataPage ==
  \A i \in 1..Len(PagesCut) : PagesCut[i].num_values > 0

----------------------------------------------------------------------------
\* the value payloads of a page body: the parts that are not level chunks
ValueParts(page) ==
  SelectSeq(page.buffer.parts, LAMBDA part : part.part \notin {"rep", "def"})

\* the encoder kind and the tag of a page cut with the given fallback_
EncoderKindWhen(fallback) ==
  IF writer.has_dictionary /\ ~fallback THEN "Dict" ELSE "Plain"

EncodingTagWhen(fallback) ==
  IF writer.has_dictionary /\ ~fallback THEN MakeEncoding(descr, properties)
  ELSE "PLAIN"

\* C27: the encoding tag of every data page matches the encoder that produced
\* its value payload: a page cut while has_dictionary_ && !fallback_ carries
\* the dictionary tag the writer was made with and holds only dictionary
\* indices, a page cut after the fallback carries PLAIN and holds only plain
\* values; the payload of a page holds exactly the values counted for it, and
\* the current encoder holds exactly the values counted as buffered, so no
\* value was buffered when the encoder was replaced.
C27_PageTagMatchesEncoder ==
  /\ \A i \in 1..Len(PagesCut) :
       /\ PagesCut[i].encoding = EncodingTagWhen(PagesCut[i].fallback)
       /\ PagesCut[i].fallback => writer.fallback
       /\ \A k \in 1..Len(ValueParts(PagesCut[i])) :
            ValueParts(PagesCut[i])[k].part = EncoderKindWhen(PagesCut[i].fallback)
       /\ Sum([k \in 1..Len(ValueParts(PagesCut[i])) |->
                 ValueParts(PagesCut[i])[k].count]) = PagesCut[i].encoded_values
  /\ writer.encoding = EncodingTagWhen(writer.fallback)
  /\ writer.current_encoder.kind = EncoderKindWhen(writer.fallback)
  /\ Len(writer.current_encoder.buffered) = writer.num_buffered_encoded_values

\* a dictionary writer that fell back between two pages that hold values: a
\* page of dictionary indices and a page of plain values are both cut
C27_Witness ==
  /\ writer.fallback
  /\ \E i, j \in 1..Len(PagesCut) :
       /\ ~PagesCut[i].fallback /\ PagesCut[i].encoded_values > 0
       /\ PagesCut[j].fallback /\ PagesCut[j].encoded_values > 0

----------------------------------------------------------------------------
\* C28: a Close call on a writer that is already closed performs no
\* finalization: it hands nothing to the sink, attaches no statistics, does
\* not close the sink again and leaves the writer as it was; it returns what
\* the first Close returned when num_rows_ = expected_rows_ and fails with the
\* row-count error otherwise.
C28_SecondCloseOnlyChecksRows ==
  [][(writer.closed /\ last'.op = "Close") =>
       /\ writer' = writer
       /\ pager' = pager
       /\ metadata' = metadata
       /\ IF writer.num_rows = writer.expected_rows
          THEN /\ last'.status = "returned"
               /\ hist.first_close.status = "returned"
               /\ last'.ret = hist.first_close.ret
          ELSE last'.status = "threw"]_vars

====
